---- MODULE Spec2Model ----
(***************************************************************************)
(* A model of zero-paste (src/src/main.rs): a command-line client that     *)
(* reads a file, classifies it by name, fetches an anti-forgery token from *)
(* the paste service with a GET and submits the paste with a POST.         *)
(*                                                                         *)
(* File names are sequences of one-character strings, so that lowercasing, *)
(* substring search and the extension regex are computed, not assumed.     *)
(* Language tags, expiry codes, tokens and URLs are opaque strings.        *)
(* An Option<T> is a sequence of length at most one: None is <<>> and      *)
(* Some(x) is <<x>>.                                                       *)
(***************************************************************************)
EXTENDS Integers, Sequences, FiniteSets

None == <<>>
Some(x) == <<x>>
IsSome(o) == Len(o) = 1
Unwrap(o) == o[1]

\* slice::contains over a Rust array
Contains(arr, x) == \E i \in 1..Len(arr) : arr[i] = x

Range(s) == {s[i] : i \in 1..Len(s)}

----------------------------------------------------------------------------
(* Constants of the program                                                *)

BASE_URL == "https://paste.mozilla.org/"

SUPPORTED_LANG ==
  <<"_text", "_markdown", "_rst", "_code", "applescript", "arduino", "bash",
    "bat", "c", "clojure", "cmake", "coffee-script", "common-lisp", "console",
    "cpp", "csharp", "css", "cuda", "dart", "delphi", "diff", "django", "dker",
    "elixir", "erlang", "go", "handlebars", "haskell", "html", "html+django",
    "ini", "ipythonconsole", "irc", "java", "js", "json", "jsx", "kotlin",
    "less", "lua", "make", "matlab", "nginx", "numpy", "objective-c", "perl",
    "php", "postgresql", "python", "rb", "rst", "rust", "sass", "scss", "sol",
    "sql", "swift", "tex", "typoscript", "vim", "xml", "xslt", "yaml">>

SUPPORTED_EXPIRE == <<"once", "1h", "1d", "1w", "21d">>

\* reqwest::redirect::Policy::limited(1024)
RedirectLimit == 1024

----------------------------------------------------------------------------
(* Characters and strings-as-sequences                                     *)

UpperChars ==
  <<"A","B","C","D","E","F","G","H","I","J","K","L","M",
    "N","O","P","Q","R","S","T","U","V","W","X","Y","Z">>

LowerChars ==
  <<"a","b","c","d","e","f","g","h","i","j","k","l","m",
    "n","o","p","q","r","s","t","u","v","w","x","y","z">>

DigitChars == {"0","1","2","3","4","5","6","7","8","9"}

\* char lowercasing, as str::to_lowercase does on the ASCII letters
to_lowercase_char(c) ==
  IF \E i \in 1..26 : UpperChars[i] = c
    THEN LowerChars[CHOOSE i \in 1..26 : UpperChars[i] = c]
    ELSE c

\* str::to_lowercase
to_lowercase(s) == [i \in 1..Len(s) |-> to_lowercase_char(s[i])]

\* str::contains(pat): pat occurs as a contiguous substring of s
str_contains(s, pat) ==
  \E i \in 1..(Len(s) - Len(pat) + 1) : SubSeq(s, i, i + Len(pat) - 1) = pat

\* the character class [a-zA-Z0-9+_-] of the extension regex
IsExtChar(c) ==
  \/ c \in Range(UpperChars)
  \/ c \in Range(LowerChars)
  \/ c \in DigitChars
  \/ c \in {"+", "_", "-"}

\* Regex \.([a-zA-Z0-9+_-]+)$ : the positions of a "." from which the rest of
\* the text is a non-empty run of class characters up to the end of the text
RegexMatchStarts(s) ==
  {i \in 1..Len(s) :
     /\ s[i] = "."
     /\ i < Len(s)
     /\ \A j \in (i + 1)..Len(s) : IsExtChar(s[j])}

\* re.captures(..).get(1): group 1 of the leftmost match, or None
regex_captures(s) ==
  IF RegexMatchStarts(s) = {} THEN None
  ELSE LET i == CHOOSE k \in RegexMatchStarts(s) :
                  \A m \in RegexMatchStarts(s) : k <= m
       IN  Some(SubSeq(s, i + 1, Len(s)))

----------------------------------------------------------------------------
(* map_filename_to_lang                                                    *)

NGINX == <<"n","g","i","n","x">>
DOCKERFILE == <<"d","o","c","k","e","r","f","i","l","e">>
MAKEFILE == <<"m","a","k","e","f","i","l","e">>
CMAKELISTS_TXT == <<"c","m","a","k","e","l","i","s","t","s",".","t","x","t">>
NGINX_CONF == <<"n","g","i","n","x",".","c","o","n","f">>

\* the first match of the source: the exact names, then the substring guard
special_cases(file_lower) ==
  IF file_lower = DOCKERFILE THEN Some("docker")
  ELSE IF file_lower = MAKEFILE THEN Some("make")
  ELSE IF file_lower = CMAKELISTS_TXT THEN Some("cmake")
  ELSE IF file_lower = NGINX_CONF THEN Some("nginx")
  ELSE IF str_contains(file_lower, NGINX) THEN Some("nginx")
  ELSE None

\* the arms of `match ext`, in source order: the patterns of an arm, its tag
ExtArms ==
  << [pats |-> {<<"t","x","t">>}, tag |-> "_text"],
     [pats |-> {<<"m","d">>}, tag |-> "_markdown"],
     [pats |-> {<<"r","s","t">>}, tag |-> "_rst"],
     [pats |-> {<<"s","h">>}, tag |-> "bash"],
     [pats |-> {<<"b","a","t">>}, tag |-> "bat"],
     [pats |-> {<<"c">>}, tag |-> "c"],
     [pats |-> {<<"l","i","s","p">>, <<"l","s","p">>, <<"c","l">>},
      tag |-> "common-lisp"],
     [pats |-> {<<"c","p","p">>, <<"c","c">>, <<"c","x","x">>, <<"h","p","p">>,
                <<"h","x","x">>, <<"i","n","c">>, <<"h","h">>, <<"h">>},
      tag |-> "cpp"],
     [pats |-> {<<"c","s">>}, tag |-> "csharp"],
     [pats |-> {<<"c","m","a","k","e">>, <<"i","n">>}, tag |-> "cmake"],
     [pats |-> {<<"c","s","s">>}, tag |-> "css"],
     [pats |-> {<<"d","a","r","t">>}, tag |-> "dart"],
     [pats |-> {<<"p","a","t","c","h">>, <<"d","i","f","f">>}, tag |-> "diff"],
     [pats |-> {<<"e","l","i","x","i","r">>, <<"e","x">>, <<"e","x","s">>},
      tag |-> "elixir"],
     [pats |-> {<<"e","r","l">>}, tag |-> "erlang"],
     [pats |-> {<<"g","o">>}, tag |-> "go"],
     [pats |-> {<<"h","b","s">>}, tag |-> "handlebars"],
     [pats |-> {<<"h","s">>}, tag |-> "haskell"],
     [pats |-> {<<"h","t","m","l">>, <<"h","t","m">>, <<"s","h","t","m">>,
                <<"s","h","t","m","l">>},
      tag |-> "html"],
     [pats |-> {<<"i","n","i">>}, tag |-> "ini"],
     [pats |-> {<<"j","a","v","a">>}, tag |-> "java"],
     [pats |-> {<<"j","s">>, <<"t","s">>}, tag |-> "js"],
     [pats |-> {<<"j","s","o","n">>, <<"j","s","o","n","l">>}, tag |-> "json"],
     [pats |-> {<<"t","s","x">>, <<"j","s","x">>}, tag |-> "jsx"],
     [pats |-> {<<"k","t">>, <<"k","t","s">>}, tag |-> "kotlin"],
     [pats |-> {<<"l","u","a">>}, tag |-> "lua"],
     [pats |-> {<<"m">>, <<"m","m">>}, tag |-> "objective-c"],
     [pats |-> {<<"p","l">>}, tag |-> "perl"],
     [pats |-> {<<"p","h","p">>}, tag |-> "php"],
     [pats |-> {<<"p","y">>}, tag |-> "python"],
     [pats |-> {<<"r","b">>}, tag |-> "rb"],
     [pats |-> {<<"r","s">>}, tag |-> "rust"],
     [pats |-> {<<"s","a","s","s">>}, tag |-> "sass"],
     [pats |-> {<<"s","c","s","s">>}, tag |-> "scss"],
     [pats |-> {<<"s","o","l">>}, tag |-> "sol"],
     [pats |-> {<<"s","q","l">>}, tag |-> "sql"],
     [pats |-> {<<"s","w","i","f","t">>}, tag |-> "swift"],
     [pats |-> {<<"t","e","x">>}, tag |-> "tex"],
     [pats |-> {<<"t","y","p","o","s","c","r","i","p","t">>},
      tag |-> "typoscript"],
     [pats |-> {<<"v","i","m">>}, tag |-> "vim"],
     [pats |-> {<<"x","m","l">>}, tag |-> "xml"],
     [pats |-> {<<"x","s","l">>, <<"x","s","l","t">>}, tag |-> "xslt"],
     [pats |-> {<<"y","m","l">>, <<"y","a","m","l">>}, tag |-> "yaml"] >>

\* `match ext { ... _ => None }`: the tag of the first arm with a pattern equal
\* to ext
match_ext(ext) ==
  LET hits == {i \in 1..Len(ExtArms) : ext \in ExtArms[i].pats}
  IN  IF hits = {} THEN None
      ELSE Some(ExtArms[CHOOSE i \in hits : \A j \in hits : i <= j].tag)

\* A variant that matches before lowercasing (case-sensitive matching).
map_filename_to_lang_case_sensitive(f) ==
  IF IsSome(special_cases(f)) THEN special_cases(f)
  ELSE IF IsSome(regex_captures(f)) THEN match_ext(Unwrap(regex_captures(f)))
  ELSE None

\* A variant that looks the extension up before the special cases.
map_filename_to_lang_ext_first(f) ==
  LET file_lower == to_lowercase(f)
      caps == regex_captures(file_lower)
  IN  IF IsSome(caps) /\ IsSome(match_ext(Unwrap(caps)))
        THEN match_ext(Unwrap(caps))
        ELSE special_cases(file_lower)

map_filename_to_lang(f) ==
  LET file_lower == to_lowercase(f)
      special == special_cases(file_lower)
      caps == regex_captures(file_lower)
  IN  IF IsSome(special) THEN special
      ELSE IF IsSome(caps) THEN match_ext(Unwrap(caps))
      ELSE None

----------------------------------------------------------------------------
(* upload_file: the pure parts                                             *)

SLASH == "/"

\* Path::file_name: the final component of the path, None when the path ends
\* in "..", is "." or has no final component
file_name(path) ==
  LET slashes == {i \in 1..Len(path) : path[i] = SLASH}
      start == IF slashes = {} THEN 1
               ELSE 1 + CHOOSE i \in slashes : \A j \in slashes : j <= i
      last == SubSeq(path, start, Len(path))
  IN  IF last = <<>> \/ last = <<".">> \/ last = <<".", ".">> THEN None
      ELSE Some(last)

\* path.file_name().and_then(to_str).and_then(map_filename_to_lang)
classify(path) ==
  IF IsSome(file_name(path)) THEN map_filename_to_lang(Unwrap(file_name(path)))
  ELSE None

\* A variant in which the classifier's tag wins over the explicit language.
resolve_lang_classifier_first(explicit, classified_tag) ==
  IF IsSome(classified_tag) THEN Unwrap(classified_tag)
  ELSE IF IsSome(explicit) THEN Unwrap(explicit)
  ELSE "_code"

\* lang.or(<classified>).unwrap_or("_code")
resolve_lang(explicit, classified_tag) ==
  IF IsSome(explicit) THEN Unwrap(explicit)
  ELSE IF IsSome(classified_tag) THEN Unwrap(classified_tag)
  ELSE "_code"

\* A variant that lets every expiry code through.
expire_supported_any(t) == TRUE

\* SUPPORTED_EXPIRE.contains(&time)
expire_supported(t) == Contains(SUPPORTED_EXPIRE, t)

\* A variant that computes 21 days as 21 * 86400 seconds.
expires_token_21_days(t) ==
  CASE t = "once" -> "onetime"
    [] t = "1h" -> "3600"
    [] t = "1d" -> "86400"
    [] t = "1w" -> "604800"
    [] t = "21d" -> "1814400"
    [] OTHER -> "onetime"

\* the `match time` of the form's "expires" field
expires_token(t) ==
  CASE t = "once" -> "onetime"
    [] t = "1h" -> "3600"
    [] t = "1d" -> "86400"
    [] t = "1w" -> "604800"
    [] t = "21d" -> "2073600"
    [] OTHER -> "onetime"

CSRF == "csrfmiddlewaretoken"

\* document.select("input[name=csrfmiddlewaretoken]"): the matching elements
\* of the page, in document order
select_csrf_inputs(doc) ==
  SelectSeq(doc, LAMBDA e : e.tag = "input" /\ e.name = CSRF)

\* A variant that substitutes an empty token when the attribute is missing.
csrf_attr_value_or_default(doc) ==
  LET sel == select_csrf_inputs(doc)
  IN  IF sel = <<>> \/ ~IsSome(sel[1].value) THEN Some("") ELSE sel[1].value

\* Selection::attr("value"): the attribute of the first selected element
csrf_attr_value(doc) ==
  LET sel == select_csrf_inputs(doc)
  IN  IF sel = <<>> THEN None ELSE sel[1].value

\* the HashMap built by the five form.insert calls
build_form(tok, content, t, lexer) ==
  [csrfmiddlewaretoken |-> tok,
   content |-> content,
   expires |-> expires_token(t),
   lexer |-> lexer,
   title |-> ""]

----------------------------------------------------------------------------
(* The inputs of a run: command lines, file contents, pages of the service *)

\* Bound on the number of elements of a page returned by the service.
MaxElems == 2

ToUpperChar(c) ==
  IF \E i \in 1..26 : LowerChars[i] = c
    THEN UpperChars[CHOOSE i \in 1..26 : LowerChars[i] = c]
    ELSE c

ToUpper(s) == [i \in 1..Len(s) |-> ToUpperChar(s[i])]

AllPats == UNION {ExtArms[i].pats : i \in 1..Len(ExtArms)}

\* main.<ext> and Main.<EXT> for every extension of the table
TableNames ==
  {<<"m","a","i","n",".">> \o e : e \in AllPats}
    \cup {<<"M","a","i","n",".">> \o ToUpper(e) : e \in AllPats}

OtherNames ==
  { <<"n","o","t","e","s",".","p","y">>,
    <<"R","E","A","D","M","E">>,
    <<"D","o","c","k","e","r","f","i","l","e">>,
    <<"m","a","k","e","f","i","l","e">>,
    <<"M","a","k","e","f","i","l","e",".","i","n">>,
    <<"C","M","a","k","e","L","i","s","t","s",".","t","x","t">>,
    <<"n","g","i","n","x",".","c","o","n","f">>,
    <<"m","y","_","n","g","i","n","x","_","s","e","r","v","i","c","e",
      ".","y","a","m","l">>,
    <<"m","y","-","n","g","i","n","x","-","t","e","s","t",".","c","o","n","f">>,
    <<"N","G","I","N","X",".","R","S">>,
    <<"a","r","c","h","i","v","e",".","t","a","r",".","g","z">>,
    <<"t","r","a","i","l","i","n","g",".">>,
    <<"a",".","b","+","c">>,
    <<"n","o","t","e","s",".","p","y","~">>,
    <<".","p","y">>,
    <<"s","r","c","/","M","a","i","n",".","R","S">>,
    <<"n","g","i","n","x","/","n","o","t","e","s",".","p","y">>,
    <<"d","o","c","s",".","m","d","/","R","E","A","D","M","E">>,
    <<".",".">> }

\* the files given with an expiry code or a language as well
FewNames ==
  { <<"n","o","t","e","s",".","p","y">>,
    <<"R","E","A","D","M","E">>,
    <<"D","o","c","k","e","r","f","i","l","e">>,
    <<"m","y","_","n","g","i","n","x","_","s","e","r","v","i","c","e",
      ".","y","a","m","l">>,
    <<"M","a","i","n",".","R","S">> }

TimeArgs == Range(SUPPORTED_EXPIRE) \cup {"2h"}

LangArgs == {"python", "_text", "docker", "klingon"}

PROG == "paste"

Argvs ==
  {<<PROG>>}
    \cup {<<PROG, f>> : f \in TableNames \cup OtherNames}
    \cup {<<PROG, f, t>> : f \in FewNames, t \in TimeArgs}
    \cup {<<PROG, f, t, l>> : f \in FewNames, t \in TimeArgs, l \in LangArgs}
    \cup {<<PROG, f, "1h", "python", "extra">> : f \in FewNames}

Contents == {"", "print(1)"}

\* the elements a page of the service is made of
Elems ==
  { [tag |-> "input", name |-> CSRF, value |-> Some("tokA")],
    [tag |-> "input", name |-> CSRF, value |-> None],
    [tag |-> "input", name |-> "title", value |-> Some("tokB")],
    [tag |-> "meta", name |-> CSRF, value |-> Some("tokM")] }

Htmls == UNION {[1..n -> Elems] : n \in 0..MaxElems}

PASTE_URL == "https://paste.mozilla.org/AbCd"

\* the lengths of the redirect chains the service answers with
Hops == {0, 1, RedirectLimit + 1}

\* the cookies the service sets on the landing page
GetCookies == {"csrftoken"}

----------------------------------------------------------------------------
(* State                                                                   *)

VARIABLES
  argv,          \* std::env::args()
  pc,            \* the position of the run
  disk,          \* Option: what read_to_string finds at argv's file path
  call,          \* Option: the parameters of the call of upload_file
  file_content,  \* Option: the content read from the file
  classified,    \* the calls of map_filename_to_lang so far, with their results
  lang,          \* Option: the `lang` of line 42, the lexer to send
  clients,       \* the cookie jar of every client built so far
  client,        \* the client of this upload (an index of clients), 0 before
  res,           \* Option: the response in hand
  html,          \* Option: the page read from the GET's response
  token,         \* Option: the token extracted from the page
  net,           \* the requests issued so far, in order
  stdout         \* the lines printed so far

vars ==
  <<argv, disk, pc, call, file_content, classified, lang, clients,
    client, res, html, token, net, stdout>>

\* upload_file's parameters, once it is called
file == Unwrap(call).file
time == Unwrap(call).time
lang_arg == Unwrap(call).lang

Line(fmt, str, list) == [fmt |-> fmt, str |-> str, list |-> list]

Init ==
  /\ argv \in Argvs
  /\ pc = "main"
  /\ disk \in {None} \cup {Some(c) : c \in Contents}
  /\ IsSome(disk) => Len(argv) >= 2 /\ IsSome(file_name(argv[2]))
  /\ call = None
  /\ file_content = None
  /\ classified = <<>>
  /\ lang = None
  /\ clients = <<>>
  /\ client = 0
  /\ res = None
  /\ html = None
  /\ token = None
  /\ net = <<>>
  /\ stdout = <<>>

----------------------------------------------------------------------------
(* main                                                                    *)

Returned == {"returned_ok", "returned_err", "panicked"}

\* [_, file, time, lang] with a language outside SUPPORTED_LANG
MainUnsupportedLang ==
  /\ pc = "main"
  /\ Len(argv) = 4
  /\ ~Contains(SUPPORTED_LANG, argv[4])
  /\ stdout' = stdout \o
       << Line("Unsupported language: {}", argv[4], <<>>),
          Line("Supported languages: {:?}", "", SUPPORTED_LANG) >>
  /\ pc' = "returned_ok"
  /\ UNCHANGED <<argv, disk, call, file_content, classified, lang,
                 clients, client, res, html, token, net>>

\* the three arms that call upload_file
MainCallUpload ==
  /\ pc = "main"
  /\ \/ /\ Len(argv) = 4
        /\ Contains(SUPPORTED_LANG, argv[4])
        /\ call' = Some([file |-> argv[2], time |-> argv[3],
                          lang |-> Some(argv[4])])
     \/ /\ Len(argv) = 3
        /\ call' = Some([file |-> argv[2], time |-> argv[3], lang |-> None])
     \/ /\ Len(argv) = 2
        /\ call' = Some([file |-> argv[2], time |-> "once", lang |-> None])
  /\ pc' = "upload_file"
  /\ UNCHANGED <<argv, disk, file_content, classified, lang, clients, client,
                 res, html, token, net, stdout>>

\* the `_` arm: any other number of arguments
MainUsage ==
  /\ pc = "main"
  /\ Len(argv) \notin {2, 3, 4}
  /\ stdout' = stdout \o
       << Line("Usage: paste <file> [time: once(default), 1h, 1d, 1w, 21d] [lang]",
               "", <<>>),
          Line("Supported languages: {:?}", "", SUPPORTED_LANG) >>
  /\ pc' = "returned_ok"
  /\ UNCHANGED <<argv, disk, call, file_content, classified, lang,
                 clients, client, res, html, token, net>>

----------------------------------------------------------------------------
(* upload_file                                                             *)

\* lines 34-38: the expiry code is not one of SUPPORTED_EXPIRE
UnsupportedExpire ==
  /\ pc = "upload_file"
  /\ ~expire_supported(time)
  /\ stdout' = stdout \o
       << Line("Unsupported expire time: {}", time, <<>>),
          Line("Supported expire time: {:?}", "", SUPPORTED_EXPIRE) >>
  /\ pc' = "returned_ok"
  /\ UNCHANGED <<argv, disk, call, file_content, classified, lang,
                 clients, client, res, html, token, net>>

\* the call of map_filename_to_lang made for a path: its argument, its result
classifier_call(path) ==
  [arg |-> Unwrap(file_name(path)),
   result |-> map_filename_to_lang(Unwrap(file_name(path)))]

\* A variant that goes on with an empty content when the read fails.
ReadFileErrIgnored ==
  /\ pc = "upload_file"
  /\ expire_supported(time)
  /\ disk = None
  /\ file_content' = Some("")
  /\ classified' = IF IsSome(file_name(file))
                     THEN Append(classified, classifier_call(file))
                     ELSE classified
  /\ lang' = Some(resolve_lang(lang_arg, classify(file)))
  /\ pc' = "build_client"
  /\ UNCHANGED <<argv, disk, call, clients, client, res, html, token,
                 net, stdout>>

\* line 41: read_to_string fails and `?` returns the error through main
ReadFileErr ==
  /\ pc = "upload_file"
  /\ expire_supported(time)
  /\ disk = None
  /\ pc' = "returned_err"
  /\ UNCHANGED <<argv, disk, call, file_content, classified, lang,
                 clients, client, res, html, token, net, stdout>>

\* lines 40-46: the file is read and the lexer is chosen. Option::or takes its
\* argument by value, so the classifier runs also when a language was given.
\* A path that read_to_string can read names a regular file, so it has a file
\* name.
ReadFileOk ==
  /\ pc = "upload_file"
  /\ expire_supported(time)
  /\ IsSome(disk)
  /\ file_content' = disk
  /\ classified' = Append(classified, classifier_call(file))
  /\ lang' = Some(resolve_lang(lang_arg, classify(file)))
  /\ pc' = "build_client"
  /\ UNCHANGED <<argv, disk, call, clients, client, res, html, token,
                 net, stdout>>

\* lines 48-51: ClientBuilder::build, which may fail
BuildClient ==
  /\ pc = "build_client"
  /\ \/ /\ clients' = Append(clients, {})
        /\ client' = Len(clients) + 1
        /\ pc' = "send_get"
     \/ /\ pc' = "returned_err"
        /\ UNCHANGED <<clients, client>>
  /\ UNCHANGED <<argv, disk, call, file_content, classified, lang,
                 res, html, token, net, stdout>>

\* client.get(BASE_URL), as issued by `c` with the cookies of its jar
get_request(c) ==
  [method |-> "GET", url |-> BASE_URL, client |-> c, cookies |-> clients[c],
   headers |-> {}, form |-> None]

\* A variant that issues the GET again after a transport error.
SendGetErrRetry ==
  /\ pc = "send_get"
  /\ net' = Append(net, get_request(client))
  /\ pc' = "send_get"
  /\ UNCHANGED <<argv, disk, call, file_content, classified, lang,
                 clients, client, res, html, token, stdout>>

\* lines 53-55: the GET fails (transport error, too many redirects)
SendGetErr ==
  /\ pc = "send_get"
  /\ net' = Append(net, get_request(client))
  /\ pc' = "returned_err"
  /\ UNCHANGED <<argv, disk, call, file_content, classified, lang,
                 clients, client, res, html, token, stdout>>

\* lines 53-55: the GET is answered; the jar of the client keeps the cookies
SendGetOk ==
  /\ pc = "send_get"
  /\ net' = Append(net, get_request(client))
  /\ \E hops \in Hops :
       /\ hops <= RedirectLimit
       /\ res' = Some([url |-> BASE_URL, hops |-> hops])
  /\ clients' = [clients EXCEPT ![client] = @ \cup GetCookies]
  /\ pc' = "read_body"
  /\ UNCHANGED <<argv, disk, call, file_content, classified, lang,
                 client, html, token, stdout>>

\* line 57: reading the body fails
ReadBodyErr ==
  /\ pc = "read_body"
  /\ res' = None
  /\ pc' = "returned_err"
  /\ UNCHANGED <<argv, disk, call, file_content, classified, lang,
                 clients, client, html, token, net, stdout>>

\* lines 57-60: the body is read and parsed, the token is unwrapped
ParseToken ==
  /\ pc = "read_body"
  /\ res' = None
  /\ \E h \in Htmls :
       /\ html' = Some(h)
       /\ IF IsSome(csrf_attr_value(h))
            THEN /\ token' = csrf_attr_value(h)
                 /\ pc' = "send_post"
            ELSE /\ token' = None
                 /\ pc' = "panicked"
  /\ UNCHANGED <<argv, disk, call, file_content, classified, lang,
                 clients, client, net, stdout>>

POST_HEADERS == {"Content-Type", "Referer", "Origin", "User-Agent"}

\* A variant that posts through a client of its own.
post_request_fresh_client(form) ==
  [method |-> "POST", url |-> BASE_URL, client |-> Len(clients) + 1,
   cookies |-> {}, headers |-> POST_HEADERS, form |-> Some(form)]

\* client.post(BASE_URL)...form(&form), with the cookies of the client's jar
post_request(form) ==
  [method |-> "POST", url |-> BASE_URL, client |-> client,
   cookies |-> clients[client], headers |-> POST_HEADERS, form |-> Some(form)]

ThisPost ==
  post_request(build_form(Unwrap(token), Unwrap(file_content), time,
                          Unwrap(lang)))

\* lines 62-84: the POST fails
SendPostErr ==
  /\ pc = "send_post"
  /\ net' = Append(net, ThisPost)
  /\ pc' = "returned_err"
  /\ UNCHANGED <<argv, disk, call, file_content, classified, lang,
                 clients, client, res, html, token, stdout>>

\* lines 62-84: the POST is answered, after the redirects were followed
SendPostOk ==
  /\ pc = "send_post"
  /\ net' = Append(net, ThisPost)
  /\ \E hops \in Hops :
       /\ hops <= RedirectLimit
       /\ res' = Some([url |-> IF hops = 0 THEN BASE_URL ELSE PASTE_URL,
                       hops |-> hops])
  /\ pc' = "print_url"
  /\ UNCHANGED <<argv, disk, call, file_content, classified, lang,
                 clients, client, html, token, stdout>>

\* lines 86-88
PrintUrl ==
  /\ pc = "print_url"
  /\ stdout' = Append(stdout, Line("Paste url: {}", Unwrap(res).url, <<>>))
  /\ pc' = "returned_ok"
  /\ UNCHANGED <<argv, disk, call, file_content, classified, lang,
                 clients, client, res, html, token, net>>

Next ==
  \/ MainUnsupportedLang
  \/ MainCallUpload
  \/ MainUsage
  \/ UnsupportedExpire
  \/ ReadFileErr
  \/ ReadFileOk
  \/ BuildClient
  \/ SendGetErr
  \/ SendGetOk
  \/ ReadBodyErr
  \/ ParseToken
  \/ SendPostErr
  \/ SendPostOk
  \/ PrintUrl

Spec == Init /\ [][Next]_vars

----------------------------------------------------------------------------
(* Observations shared by the properties                                   *)

IsGet(i) == net[i].method = "GET"
IsPost(i) == net[i].method = "POST"
Gets == {i \in 1..Len(net) : IsGet(i)}
Posts == {i \in 1..Len(net) : IsPost(i)}
FormOf(i) == Unwrap(net[i].form)
UrlLines == {i \in 1..Len(stdout) : stdout[i].fmt = "Paste url: {}"}
UrlPrinted == UrlLines # {}

README == <<"R","E","A","D","M","E">>
NOTES_PY == <<"n","o","t","e","s",".","p","y">>
MAIN_RS_UPPER == <<"M","a","i","n",".","R","S">>
NGINX_YAML ==
  <<"m","y","_","n","g","i","n","x","_","s","e","r","v","i","c","e",
    ".","y","a","m","l">>

----------------------------------------------------------------------------
\* C1: every lexer sent in a POST is a member of SUPPORTED_LANG, and every
\* value map_filename_to_lang returns is None or a member of SUPPORTED_LANG.
C1_LexerInSupportedLang ==
  /\ \A i \in Posts : Contains(SUPPORTED_LANG, FormOf(i).lexer)
  /\ \A i \in 1..Len(classified) :
       \/ classified[i].result = None
       \/ Contains(SUPPORTED_LANG, Unwrap(classified[i].result))

----------------------------------------------------------------------------
BadLangArg == Len(argv) = 4 /\ ~Contains(SUPPORTED_LANG, argv[4])
BadTimeArg == Len(argv) \in {3, 4} /\ ~Contains(SUPPORTED_EXPIRE, argv[3])

ValidationReport ==
  IF BadLangArg
    THEN << Line("Unsupported language: {}", argv[4], <<>>),
            Line("Supported languages: {:?}", "", SUPPORTED_LANG) >>
    ELSE << Line("Unsupported expire time: {}", argv[3], <<>>),
            Line("Supported expire time: {:?}", "", SUPPORTED_EXPIRE) >>

\* C2: with a language argument outside SUPPORTED_LANG or an expiry argument
\* outside SUPPORTED_EXPIRE, the run issues no GET and no POST, builds no
\* client and prints no paste URL; it can only go on to return, and when it has
\* returned it has printed the offending value and the allow-list, nothing else.
C2_ValidationAbortsBeforeNetwork ==
  (BadLangArg \/ BadTimeArg) =>
    /\ net = <<>>
    /\ clients = <<>>
    /\ ~UrlPrinted
    /\ pc \in {"main", "upload_file", "returned_ok"}
    /\ pc = "returned_ok" => stdout = ValidationReport
    /\ pc # "returned_ok" => stdout = <<>>
    /\ pc = "main" => ENABLED (MainUnsupportedLang \/ MainCallUpload)
    /\ pc = "upload_file" => ENABLED UnsupportedExpire

C2_Witness ==
  /\ BadTimeArg
  /\ ~BadLangArg
  /\ Len(argv) = 4
  /\ pc = "returned_ok"
  /\ stdout = ValidationReport

----------------------------------------------------------------------------
\* the page has an input element named csrfmiddlewaretoken with a value
HasTokenInput(doc) ==
  \E k \in 1..Len(doc) :
    doc[k].tag = "input" /\ doc[k].name = CSRF /\ IsSome(doc[k].value)

\* C3: once the GET has returned a page without an input element named
\* csrfmiddlewaretoken that has a value, the run is in the terminal panicked
\* state: no step is possible, the one GET was not repeated, no POST was issued
\* and no paste URL was printed.
C3_MissingTokenIsFatal ==
  (IsSome(html) /\ ~HasTokenInput(Unwrap(html))) =>
    /\ pc = "panicked"
    /\ ~ENABLED Next
    /\ token = None
    /\ Posts = {}
    /\ Cardinality(Gets) = 1
    /\ ~UrlPrinted

C3_Witness ==
  /\ IsSome(html)
  /\ Len(Unwrap(html)) = 2
  /\ ~HasTokenInput(Unwrap(html))
  /\ pc = "panicked"
  /\ Len(net) = 1

----------------------------------------------------------------------------
\* the order of the positions of a run
Rank(p) ==
  CASE p = "main" -> 0
    [] p = "upload_file" -> 1
    [] p = "build_client" -> 2
    [] p = "send_get" -> 3
    [] p = "read_body" -> 4
    [] p = "send_post" -> 5
    [] p = "print_url" -> 6
    [] p \in Returned -> 7

\* the step of the per-invocation state machine a state is in; a run that
\* returned without printing a URL counts as Failed
Phase ==
  CASE pc \in {"main", "upload_file", "build_client", "send_get", "read_body"}
         -> "Start"
    [] pc = "send_post" -> "TokenFetched"
    [] pc = "print_url" -> "Submitted"
    [] pc \in Returned /\ UrlPrinted -> "Done"
    [] pc \in Returned /\ ~UrlPrinted -> "Failed"

PhaseMoves ==
  { <<"Start", "Start">>, <<"Start", "TokenFetched">>,
    <<"TokenFetched", "Submitted">>, <<"Submitted", "Done">>,
    <<"Start", "Failed">>, <<"TokenFetched", "Failed">>,
    <<"Submitted", "Failed">> }

C4_Inv ==
  /\ Cardinality(Gets) <= 1
  /\ Cardinality(Posts) <= 1
  /\ \A i \in Posts : i = 2 /\ IsGet(1) /\ IsSome(html) /\ IsSome(token)
  /\ Phase = "Start" => Posts = {} /\ token = None
  /\ Phase = "TokenFetched" => Cardinality(Gets) = 1 /\ Posts = {}
  /\ Phase = "Submitted" => Cardinality(Posts) = 1 /\ IsSome(res)
  /\ UrlPrinted =>
       /\ Cardinality(UrlLines) = 1
       /\ Cardinality(Gets) = 1
       /\ Cardinality(Posts) = 1
       /\ IsSome(res)
       /\ pc = "returned_ok"

C4_Step ==
  /\ pc \notin Returned
  /\ Rank(pc') > Rank(pc)
  /\ <<Phase, Phase'>> \in PhaseMoves

\* C4: a run moves Start -> TokenFetched -> Submitted -> Done, or to Failed
\* from a step that is not terminal; Done and Failed are terminal and no
\* position is entered twice. At most one GET and one POST are issued, the POST
\* only after the GET was answered and a token extracted, the URL is printed
\* only after the POST was answered, and a run that printed a URL issued
\* exactly one GET and one POST.
C4_StateMachine == [](C4_Inv) /\ [][C4_Step]_vars

C4_Witness ==
  /\ Phase = "Done"
  /\ Len(net) = 2
  /\ IsGet(1)
  /\ IsPost(2)
  /\ stdout = <<Line("Paste url: {}", PASTE_URL, <<>>)>>

----------------------------------------------------------------------------
\* the value of the first input element named csrfmiddlewaretoken of a page
\* is tok
FirstTokenInputIs(doc, tok) ==
  \E k \in 1..Len(doc) :
    /\ doc[k].tag = "input" /\ doc[k].name = CSRF
    /\ doc[k].value = Some(tok)
    /\ \A m \in 1..(k - 1) : ~(doc[m].tag = "input" /\ doc[m].name = CSRF)

FormFields == {"csrfmiddlewaretoken", "content", "expires", "lexer", "title"}

\* C5: a POST goes through the one client of the run, the client that issued
\* the GET, and carries the cookies the GET's response set; its form has
\* exactly the fields csrfmiddlewaretoken, content, expires, lexer and title,
\* with the token extracted from the page of this run's GET, the content read
\* from the file and an empty title.
C5_PostSameSessionFiveFields ==
  \A i \in Posts :
    /\ Len(clients) = 1
    /\ net[i].client = client
    /\ \E j \in Gets : j < i /\ net[j].client = net[i].client
    /\ net[i].cookies = GetCookies
    /\ DOMAIN FormOf(i) = FormFields
    /\ IsSome(html)
    /\ FirstTokenInputIs(Unwrap(html), FormOf(i).csrfmiddlewaretoken)
    /\ FormOf(i).content = Unwrap(disk)
    /\ FormOf(i).title = ""

C5_Witness ==
  /\ Posts = {2}
  /\ FormOf(2).csrfmiddlewaretoken = "tokA"
  /\ FormOf(2).content = "print(1)"
  /\ Len(Unwrap(html)) = 2
  /\ Unwrap(html)[1].name = "title"

----------------------------------------------------------------------------
\* upload_file was called with a supported expiry code and its file cannot be
\* read
UnreadableFile ==
  /\ IsSome(call)
  /\ Contains(SUPPORTED_EXPIRE, time)
  /\ disk = None

C6_Inv ==
  UnreadableFile =>
    /\ pc \in {"upload_file", "returned_err"}
    /\ file_content = None
    /\ clients = <<>>
    /\ net = <<>>
    /\ stdout = <<>>

C6_Step == (UnreadableFile /\ pc = "upload_file") => pc' = "returned_err"

\* C6: when the file cannot be read, upload_file returns the error: the only
\* step of the run is the return of the error, and the run built no client,
\* issued no GET and no POST and printed nothing.
C6_UnreadableFileIsFatal == [](C6_Inv) /\ [][C6_Step]_vars

C6_Witness ==
  /\ UnreadableFile
  /\ pc = "returned_err"
  /\ file = NOTES_PY

----------------------------------------------------------------------------
\* the final component of the path given on the command line
BaseName == Unwrap(file_name(argv[2]))

\* the lexer the fallback chain gives for the command line
ChainLexer ==
  IF Len(argv) = 4 THEN argv[4]
  ELSE IF IsSome(map_filename_to_lang(BaseName))
    THEN Unwrap(map_filename_to_lang(BaseName))
  ELSE "_code"

\* C7: the lexer of a POST is the explicit language when one was given,
\* otherwise the tag map_filename_to_lang returns for the base name of the
\* file, otherwise _code; notes.py with expiry once is sent with expires
\* onetime and lexer python, README is sent with lexer _code.
C7_LexerFallbackChain ==
  \A i \in Posts :
    /\ FormOf(i).lexer = ChainLexer
    /\ argv = <<PROG, NOTES_PY, "once">> =>
         FormOf(i).expires = "onetime" /\ FormOf(i).lexer = "python"
    /\ (Len(argv) \in {2, 3} /\ argv[2] = README) => FormOf(i).lexer = "_code"
    /\ (Len(argv) = 4 /\ argv[2] = README) => FormOf(i).lexer = argv[4]

C7_Witness ==
  /\ argv = <<PROG, NOTES_PY, "once">>
  /\ Posts = {2}
  /\ FormOf(2).lexer = "python"
  /\ FormOf(2).expires = "onetime"

----------------------------------------------------------------------------
\* C8: every call of map_filename_to_lang with a name whose lowercased form
\* contains nginx returns the nginx tag, whatever the extension of the name
\* maps to.
C8_NginxSubstringWins ==
  \A i \in 1..Len(classified) :
    str_contains(to_lowercase(classified[i].arg), NGINX) =>
      classified[i].result = Some("nginx")

C8_Witness ==
  /\ Len(classified) = 1
  /\ classified[1].arg = NGINX_YAML
  /\ classified[1].result = Some("nginx")

----------------------------------------------------------------------------
\* lower, a lowercased name, ends in a "." followed by ext
EndsInExt(lower, ext) ==
  /\ Len(lower) > Len(ext)
  /\ lower[Len(lower) - Len(ext)] = "."
  /\ SubSeq(lower, Len(lower) - Len(ext) + 1, Len(lower)) = ext

\* the arms of the extension table that hold an extension lower ends in
ArmsOf(lower) ==
  {k \in 1..Len(ExtArms) : \E e \in ExtArms[k].pats : EndsInExt(lower, e)}

\* C9, as stated: every call of map_filename_to_lang with a name ending in an
\* extension of the table, in any case, returns the tag of the table.
C9_ExtensionTableLookup ==
  \A i \in 1..Len(classified) :
    LET lower == to_lowercase(classified[i].arg)
    IN  \A k \in ArmsOf(lower) : classified[i].result = Some(ExtArms[k].tag)

\* C9, amended: every call of map_filename_to_lang with a name ending in an
\* extension of the table, in any case, returns the tag of the table, unless
\* the lowercased name is cmakelists.txt or contains nginx.
C9_ExtensionTableLookupUnlessSpecial ==
  \A i \in 1..Len(classified) :
    LET lower == to_lowercase(classified[i].arg)
    IN  (lower # CMAKELISTS_TXT /\ ~str_contains(lower, NGINX)) =>
          \A k \in ArmsOf(lower) : classified[i].result = Some(ExtArms[k].tag)

C9_Witness ==
  /\ Len(classified) = 1
  /\ classified[1].arg = MAIN_RS_UPPER
  /\ classified[1].result = Some("rust")

----------------------------------------------------------------------------
\* the table of the service's expiry tokens
ExpiryTable ==
  [c \in {"once", "1h", "1d", "1w", "21d"} |->
     CASE c = "once" -> "onetime"
       [] c = "1h" -> "3600"
       [] c = "1d" -> "86400"
       [] c = "1w" -> "604800"
       [] c = "21d" -> "2073600"]

WireTokens == {"onetime", "3600", "86400", "604800", "2073600"}

\* C10: a POST is sent for an expiry code of the closed set only, and its
\* expires field is the table's token for that code, one of the wire tokens;
\* over the closed set the mapping is defined, one-to-one and onto the tokens.
C10_ExpiryMapping ==
  /\ \A i \in Posts :
       /\ time \in DOMAIN ExpiryTable
       /\ Len(argv) \in {3, 4} => time = argv[3]
       /\ Len(argv) = 2 => time = "once"
       /\ FormOf(i).expires = ExpiryTable[time]
       /\ FormOf(i).expires \in WireTokens
  /\ Range(SUPPORTED_EXPIRE) = DOMAIN ExpiryTable
  /\ \A a, b \in Range(SUPPORTED_EXPIRE) :
       expires_token(a) = expires_token(b) => a = b
  /\ {expires_token(c) : c \in Range(SUPPORTED_EXPIRE)} = WireTokens

C10_Witness ==
  /\ Posts = {2}
  /\ time = "21d"
  /\ FormOf(2).expires = "2073600"

====
